---- MODULE Spec2Model ----
(***************************************************************************)
(* Model of purdue_plot_for_wl.py: the cycle-point derivation engine       *)
(* (update_stored_cycle_points), the event correlator                      *)
(* (update_stored_events, write_events), the cycle flush                   *)
(* (write_cycle_data) and the polling loop of main.                        *)
(*                                                                         *)
(* Time is counted in whole seconds since the epoch.  A datetime is        *)
(* represented by its epoch second t: datetime.timestamp() is t and        *)
(* datetime.second is t % 60 (zone offsets are whole minutes).             *)
(***************************************************************************)
EXTENDS Integers, Sequences, FiniteSets, TLC

\* ------------------------------------------------------------------ bounds
\* Last minute the wall clock reaches in a run of main.
MaxMinute == 4
\* Largest number of direct calls of update_stored_cycle_points in SpecEngine.
MaxCalls == 3

\* ------------------------------------------------------------ value types
GREEN == "green"
YELLOW == "yellow"
RED == "red"
\* Iteration order of the TLColor enum
TLColor == <<GREEN, YELLOW, RED>>
Colors == {GREEN, YELLOW, RED}

\* Locations (rsu_id, bound, movement) that occur in the payloads
Location == {"L1", "L2"}

Point(x, y) == [x |-> x, y |-> y]

\* Python's None for an Optional[datetime]
None == -1

Last(s) == s[Len(s)]

\* ------------------------------------------------------- derivation engine
\* datetime.second of the datetime with epoch second t
Second(t) == t % 60

\* Mutant of Bootstrap: y is taken from the minute field, not the second
BootstrapMinute(tyme) == Point(tyme, (tyme \div 60) % 60)

\* The point computed by the else-branch "just use seconds" (and by the
\* first-observation branch).
Bootstrap(tyme) == Point(tyme, Second(tyme))

\* Mutant of Chain: the offset of the base point is dropped
ChainNoOffset(tyme, base) == Point(tyme, tyme - base.x)

\* Mutant of GreenPoint: y is the red start instead of the offset from it
GreenPointAbsolute(tyme, prev_red_point) == Point(tyme, prev_red_point.x)

\* The yellow and red branches: chain onto a point of the same cycle
Chain(tyme, base) == Point(tyme, base.y + tyme - base.x)

\* The green branch: the offset from the previous red start
GreenPoint(tyme, prev_red_point) == Point(tyme, tyme - prev_red_point.x)

\* Mutant of CarryForward: the point carried forward restarts at x = 0
CarryForwardOrigin(prev_point) == Point(0, prev_point.y)

\* The carry-forward branch: the last stored point of the colour
CarryForward(prev_point) == prev_point

\* Mutant of DerivePoint: a RED point is chained onto this cycle's GREEN
\* point before its YELLOW point is looked at
DerivePointGreenFirst(stored, curr, tyme, color) ==
    LET has_prev == stored[color] /= <<>>
        has_prev_red == stored[RED] /= <<>>
    IN  IF tyme = None /\ ~has_prev
          THEN [kind |-> "skip", pt |-> Point(0, 0)]
        ELSE IF tyme = None
          THEN [kind |-> "point", pt |-> CarryForward(Last(stored[color]))]
        ELSE IF ~has_prev
          THEN [kind |-> "point", pt |-> Bootstrap(tyme)]
        ELSE IF color = GREEN
          THEN IF has_prev_red
                 THEN [kind |-> "point",
                       pt |-> GreenPoint(tyme, Last(stored[RED]))]
                 ELSE [kind |-> "raise", pt |-> Point(0, 0)]
        ELSE IF color = YELLOW /\ GREEN \in DOMAIN curr
          THEN [kind |-> "point", pt |-> Chain(tyme, curr[GREEN])]
        ELSE IF color = RED /\ GREEN \in DOMAIN curr
          THEN [kind |-> "point", pt |-> Chain(tyme, curr[GREEN])]
        ELSE IF color = RED /\ YELLOW \in DOMAIN curr
          THEN [kind |-> "point", pt |-> Chain(tyme, curr[YELLOW])]
        ELSE [kind |-> "point", pt |-> Bootstrap(tyme)]

\* One pass of the body of "for color in TLColor" up to the append:
\* stored is stored_cycle_points[loc], curr is curr_cycle_points (a function
\* on the colours resolved so far), tyme is datum[color].
\* kind "skip" is the continue, "raise" is the AttributeError of
\* prev_red_point.x with prev_red_point None.
DerivePoint(stored, curr, tyme, color) ==
    LET has_prev == stored[color] /= <<>>
        has_prev_red == stored[RED] /= <<>>
    IN  IF tyme = None /\ ~has_prev
          THEN [kind |-> "skip", pt |-> Point(0, 0)]
        ELSE IF tyme = None
          THEN [kind |-> "point", pt |-> CarryForward(Last(stored[color]))]
        ELSE IF ~has_prev
          THEN [kind |-> "point", pt |-> Bootstrap(tyme)]
        ELSE IF color = GREEN
          THEN IF has_prev_red
                 THEN [kind |-> "point",
                       pt |-> GreenPoint(tyme, Last(stored[RED]))]
                 ELSE [kind |-> "raise", pt |-> Point(0, 0)]
        ELSE IF color = YELLOW /\ GREEN \in DOMAIN curr
          THEN [kind |-> "point", pt |-> Chain(tyme, curr[GREEN])]
        ELSE IF color = RED /\ YELLOW \in DOMAIN curr
          THEN [kind |-> "point", pt |-> Chain(tyme, curr[YELLOW])]
        ELSE IF color = RED /\ GREEN \in DOMAIN curr
          THEN [kind |-> "point", pt |-> Chain(tyme, curr[GREEN])]
        ELSE [kind |-> "point", pt |-> Bootstrap(tyme)]

\* Mutant of AppendEvict: the eviction starts one element late
AppendEvictLate(points, pt) ==
    LET appended == Append(points, pt)
    IN  IF Len(appended) = 5 THEN Tail(appended) ELSE appended

\* append, then pop(0) when the length reached 4
AppendEvict(points, pt) ==
    LET appended == Append(points, pt)
    IN  IF Len(appended) = 4 THEN Tail(appended) ELSE appended

\* The colour loop for one datum, from colour number i on.
\* st = [stored, curr, raised]
RECURSIVE ColorLoop(_, _, _)
ColorLoop(st, datum, i) ==
    IF i > Len(TLColor) \/ st.raised THEN st
    ELSE LET color == TLColor[i]
             d == DerivePoint(st.stored, st.curr, datum[color], color)
         IN  IF d.kind = "skip" THEN ColorLoop(st, datum, i + 1)
             ELSE IF d.kind = "raise"
               THEN [st EXCEPT !.raised = TRUE]
             ELSE ColorLoop(
                    [stored |-> [st.stored EXCEPT
                                   ![color] = AppendEvict(@, d.pt)],
                     curr |-> (color :> d.pt) @@ st.curr,
                     raised |-> FALSE],
                    datum, i + 1)

\* One datum of one location: curr_cycle_points starts empty.
ProcessDatum(stored, datum) ==
    ColorLoop([stored |-> stored, curr |-> << >>, raised |-> FALSE], datum, 1)

\* all_cycle_data is the dict in insertion order: a sequence of
\* [loc, data] items.  Flatten gives the (loc, datum) pairs in the order the
\* two nested for-loops visit them.
RECURSIVE Flatten(_)
Flatten(all_cycle_data) ==
    IF all_cycle_data = <<>> THEN <<>>
    ELSE LET item == Head(all_cycle_data)
         IN  [k \in 1..Len(item.data) |->
                 [loc |-> item.loc, datum |-> item.data[k]]]
             \o Flatten(Tail(all_cycle_data))

\* stored_cycle_points[loc] on a defaultdict inserts the key loc
Touch(keys, loc) ==
    IF \E k \in 1..Len(keys) : keys[k] = loc THEN keys ELSE Append(keys, loc)

\* The (loc, datum) pairs from number i on.  acc = [scp, keys, raised, log];
\* log gets one entry per datum visited: the location, the datum, the
\* location's history before and after it, curr_cycle_points at its end
\* and whether it raised.
RECURSIVE DatumLoop(_, _, _)
DatumLoop(acc, pairs, i) ==
    IF i > Len(pairs) \/ acc.raised THEN acc
    ELSE LET loc == pairs[i].loc
             datum == pairs[i].datum
             r == ProcessDatum(acc.scp[loc], datum)
         IN  DatumLoop(
               [scp |-> [acc.scp EXCEPT ![loc] = r.stored],
                keys |-> Touch(acc.keys, loc),
                raised |-> r.raised,
                log |-> Append(acc.log,
                               [loc |-> loc, datum |-> datum,
                                pre |-> acc.scp[loc], post |-> r.stored,
                                curr |-> r.curr, raised |-> r.raised])],
               pairs, i + 1)

update_stored_cycle_points(scp, keys, all_cycle_data) ==
    DatumLoop([scp |-> scp, keys |-> keys, raised |-> FALSE, log |-> <<>>],
              Flatten(all_cycle_data), 1)

\* The keys of stored_cycle_points[loc], a defaultdict(list), after n
\* passes of the colour loop have started: each pass reads
\* stored_cycle_points[loc][color] and stored_cycle_points[loc][RED], and a
\* read inserts a missing key.  ck is the key sequence of one location.
RECURSIVE TouchPasses(_, _)
TouchPasses(ck, n) ==
    IF n = 0 THEN ck
    ELSE Touch(Touch(TouchPasses(ck, n - 1), TLColor[n]), RED)

\* The inner keys after the data of a log: a datum that raised did so in
\* its first pass (GREEN), every other datum went through all passes
RECURSIVE ColorKeysAfter(_, _, _)
ColorKeysAfter(ckeys, log, i) ==
    IF i > Len(log) THEN ckeys
    ELSE ColorKeysAfter(
           [ckeys EXCEPT ![log[i].loc] =
              TouchPasses(@, IF log[i].raised THEN 1 ELSE Len(TLColor))],
           log, i + 1)

\* The states in which a KeyboardInterrupt may find one location inside the
\* colour loop of one datum, from pass i on.  st = [stored, curr, ck]:
\* after each of the two reads of a pass, after the append and after the
\* pop(0).
RECURSIVE ColorCuts(_, _, _)
ColorCuts(st, datum, i) ==
    IF i > Len(TLColor) THEN {}
    ELSE LET color == TLColor[i]
             first == [st EXCEPT !.ck = Touch(st.ck, color)]
             read == [first EXCEPT !.ck = Touch(first.ck, RED)]
             d == DerivePoint(st.stored, st.curr, datum[color], color)
             full == [stored |-> [st.stored EXCEPT
                                    ![color] = Append(@, d.pt)],
                      curr |-> (color :> d.pt) @@ st.curr,
                      ck |-> read.ck]
             done == [full EXCEPT
                        !.stored = [st.stored EXCEPT
                                      ![color] = AppendEvict(@, d.pt)]]
         IN  {first, read} \cup
             (IF d.kind = "skip" THEN ColorCuts(read, datum, i + 1)
              ELSE IF d.kind = "raise" THEN {}
              ELSE {full, done} \cup ColorCuts(done, datum, i + 1))

\* The states in which a KeyboardInterrupt may find
\* update_stored_cycle_points inside the (loc, datum) pairs from number i
\* on: [scp, keys, ckeys, log], log the data completed.  ckeys0 holds the
\* inner keys at the call.
RECURSIVE DatumCuts(_, _, _, _)
DatumCuts(acc, ckeys0, pairs, i) ==
    IF i > Len(pairs) \/ acc.raised THEN {}
    ELSE LET loc == pairs[i].loc
             ckeys == ColorKeysAfter(ckeys0, acc.log, 1)
             start == [stored |-> acc.scp[loc], curr |-> << >>,
                       ck |-> ckeys[loc]]
         IN  { [scp |-> [acc.scp EXCEPT ![loc] = c.stored],
                keys |-> Touch(acc.keys, loc),
                ckeys |-> [ckeys EXCEPT ![loc] = c.ck],
                log |-> acc.log] :
               c \in {start} \cup ColorCuts(start, pairs[i].datum, 1) }
             \cup DatumCuts(DatumLoop(acc, SubSeq(pairs, 1, i), i),
                            ckeys0, pairs, i + 1)

update_stored_cycle_points_cuts(scp, keys, ckeys, all_cycle_data) ==
    DatumCuts([scp |-> scp, keys |-> keys, raised |-> FALSE, log |-> <<>>],
              ckeys, Flatten(all_cycle_data), 1)

\* ------------------------------------------------------- event correlator
\* Mutant of EventLoop: the oldest batch is popped once the list with the
\* new batch holds 3 batches, so that 2 are kept
RECURSIVE EventLoopPopAfter(_, _, _, _)
EventLoopPopAfter(st, all_new_events, poll, i) ==
    IF i > Len(all_new_events) THEN st
    ELSE LET loc == all_new_events[i].loc
             batches == Append(st.se[loc], all_new_events[i].events)
             polled == Append(st.stamps[loc], poll)
         IN  EventLoopPopAfter(
               [se |-> [st.se EXCEPT
                          ![loc] = IF Len(batches) >= 3 THEN Tail(batches)
                                   ELSE batches],
                keys |-> Touch(st.keys, loc),
                stamps |-> [st.stamps EXCEPT
                              ![loc] = IF Len(batches) >= 3 THEN Tail(polled)
                                       ELSE polled]],
               all_new_events, poll, i + 1)

\* all_new_events is the dict in insertion order: a sequence of
\* [loc, events] items.  st = [se, keys, stamps]; stamps[loc] holds, for
\* each retained batch, the number of the poll that delivered it.
RECURSIVE EventLoop(_, _, _, _)
EventLoop(st, all_new_events, poll, i) ==
    IF i > Len(all_new_events) THEN st
    ELSE LET loc == all_new_events[i].loc
             popped == IF Len(st.se[loc]) = 3 THEN Tail(st.se[loc])
                       ELSE st.se[loc]
             stamp == IF Len(st.se[loc]) = 3 THEN Tail(st.stamps[loc])
                      ELSE st.stamps[loc]
         IN  EventLoop(
               [se |-> [st.se EXCEPT
                          ![loc] = Append(popped, all_new_events[i].events)],
                keys |-> Touch(st.keys, loc),
                stamps |-> [st.stamps EXCEPT ![loc] = Append(stamp, poll)]],
               all_new_events, poll, i + 1)

update_stored_events(se, keys, stamps, all_new_events, poll) ==
    EventLoop([se |-> se, keys |-> keys, stamps |-> stamps],
              all_new_events, poll, 1)

\* The states in which a KeyboardInterrupt may find update_stored_events
\* inside the items from number i on: after stored_events[loc] inserted the
\* key, after the pop(0) and after the append.  done counts the batches
\* appended.
RECURSIVE EventCuts(_, _, _, _)
EventCuts(st, all_new_events, poll, i) ==
    IF i > Len(all_new_events) THEN {}
    ELSE LET loc == all_new_events[i].loc
             touched == [se |-> st.se, keys |-> Touch(st.keys, loc),
                         stamps |-> st.stamps, done |-> i - 1]
             popped == [touched EXCEPT !.se[loc] = Tail(@),
                                       !.stamps[loc] = Tail(@)]
             after == EventLoop(st, SubSeq(all_new_events, 1, i), poll, i)
         IN  {touched}
             \cup (IF Len(st.se[loc]) = 3 THEN {popped} ELSE {})
             \cup {[se |-> after.se, keys |-> after.keys,
                    stamps |-> after.stamps, done |-> i]}
             \cup EventCuts(after, all_new_events, poll, i + 1)

update_stored_events_cuts(se, keys, stamps, all_new_events, poll) ==
    EventCuts([se |-> se, keys |-> keys, stamps |-> stamps],
              all_new_events, poll, 1)

\* ------------------------------------------------------------ output rows
UTC_TO_PDT == -7
UTC_TO_PST == -8

\* The header row written by write_header
DATA_HEADER == [loc |-> "RSU", x |-> 0, y |-> 0, pst |-> 0, pdt |-> 0]

\* make_data_row: location, x, y and x shifted to PST and PDT (the 12-hour
\* columns print the same two instants)
make_data_row(loc, x_val, y_val) ==
    [loc |-> loc, x |-> x_val, y |-> y_val,
     pst |-> x_val + UTC_TO_PST * 3600, pdt |-> x_val + UTC_TO_PDT * 3600]

\* Mutant of CycleRows: the rows of the two oldest points are written
RECURSIVE CycleRowsOldest(_, _, _, _)
CycleRowsOldest(scp, keys, color, i) ==
    IF i > Len(keys) THEN <<>>
    ELSE LET points == scp[keys[i]][color]
         IN  (IF Len(points) < 2 THEN <<>>
              ELSE << make_data_row(keys[i], points[1].x, points[1].y),
                      make_data_row(keys[i], points[2].x, points[2].y) >>)
             \o CycleRowsOldest(scp, keys, color, i + 1)

\* Rows appended to the file of one colour, for the locations keys[i..]
RECURSIVE CycleRows(_, _, _, _)
CycleRows(scp, keys, color, i) ==
    IF i > Len(keys) THEN <<>>
    ELSE LET points == scp[keys[i]][color]
             n == Len(points)
         IN  (IF n < 2 THEN <<>>
              ELSE << make_data_row(keys[i], points[n - 1].x, points[n - 1].y),
                      make_data_row(keys[i], points[n].x, points[n].y) >>)
             \o CycleRows(scp, keys, color, i + 1)

\* write_cycle_data: the new contents of the three colour files
write_cycle_data(scp, keys) ==
    [color \in Colors |-> <<DATA_HEADER>> \o CycleRows(scp, keys, color, 1)]

\* The writerow calls of write_cycle_data for one location, in the order of
\* stored_points.items(): the inner keys ck from number j on
RECURSIVE ColorWrites(_, _, _, _)
ColorWrites(loc, stored_points, ck, j) ==
    IF j > Len(ck) THEN <<>>
    ELSE LET points == stored_points[ck[j]]
             n == Len(points)
         IN  (IF n < 2 THEN <<>>
              ELSE << [color |-> ck[j],
                       row |-> make_data_row(loc, points[n - 1].x,
                                             points[n - 1].y)],
                      [color |-> ck[j],
                       row |-> make_data_row(loc, points[n].x,
                                             points[n].y)] >>)
             \o ColorWrites(loc, stored_points, ck, j + 1)

\* The writerow calls of write_cycle_data in the order they are made
RECURSIVE CycleWrites(_, _, _, _)
CycleWrites(scp, keys, ckeys, i) ==
    IF i > Len(keys) THEN <<>>
    ELSE ColorWrites(keys[i], scp[keys[i]], ckeys[keys[i]], 1)
         \o CycleWrites(scp, keys, ckeys, i + 1)

\* The rows the first n writes put into the file of one colour
RECURSIVE RowsWritten(_, _, _)
RowsWritten(writes, n, color) ==
    IF n = 0 THEN <<>>
    ELSE RowsWritten(writes, n - 1, color)
         \o (IF writes[n].color = color THEN <<writes[n].row>> ELSE <<>>)

\* The contents of the colour files in which a KeyboardInterrupt may find
\* write_cycle_data: file number k truncated by open(fname, 'w') or given
\* its header, the files before it with their header and the files after
\* it as they were (fs); then the header and the rows of the first n
\* writes (a file is closed, and so flushed, when the interrupt leaves the
\* with block)
write_cycle_data_cuts(fs, scp, keys, ckeys) ==
    LET writes == CycleWrites(scp, keys, ckeys, 1)
    IN  { [color \in Colors |->
             LET j == CHOOSE j \in 1..Len(TLColor) : TLColor[j] = color
             IN  IF j < k THEN <<DATA_HEADER>>
                 ELSE IF j = k THEN top
                 ELSE fs[color]] :
          k \in 1..Len(TLColor), top \in { <<>>, <<DATA_HEADER>> } }
        \cup
        { [color \in Colors |->
             <<DATA_HEADER>> \o RowsWritten(writes, n, color)] :
          n \in 1..Len(writes) }

\* sorted(): insertion of e into an ascending sequence, after its equals
RECURSIVE Insert(_, _)
Insert(e, s) ==
    IF s = <<>> THEN <<e>>
    ELSE IF e < Head(s) THEN <<e>> \o s
    ELSE <<Head(s)>> \o Insert(e, Tail(s))

RECURSIVE Sorted(_)
Sorted(s) == IF s = <<>> THEN <<>> ELSE Insert(Head(s), Sorted(Tail(s)))

\* float('inf')
Inf == -1

\* Mutant of DiffLoop: the first RED point not after the event is taken,
\* not the nearest one
RECURSIVE DiffLoopFirst(_, _, _, _)
DiffLoopFirst(event, reds, diff, i) ==
    IF i > Len(reds) THEN diff
    ELSE LET d == event - reds[i].x
         IN  DiffLoopFirst(event, reds,
                           IF 0 <= d /\ diff = Inf THEN d ELSE diff,
                           i + 1)

\* The loop over the RED points from number i on, diff so far
RECURSIVE DiffLoop(_, _, _, _)
DiffLoop(event, reds, diff, i) ==
    IF i > Len(reds) THEN diff
    ELSE LET d == event - reds[i].x
         IN  DiffLoop(event, reds,
                      IF 0 <= d /\ (diff = Inf \/ d < diff) THEN d ELSE diff,
                      i + 1)

\* Rows of one location: the events of all_events[0] in ascending order
RECURSIVE EventRows(_, _, _, _)
EventRows(loc, sorted_events, reds, i) ==
    IF i > Len(sorted_events) THEN <<>>
    ELSE LET diff == DiffLoop(sorted_events[i], reds, Inf, 1)
         IN  (IF diff = Inf THEN <<>>
              ELSE << make_data_row(loc, sorted_events[i], diff) >>)
             \o EventRows(loc, sorted_events, reds, i + 1)

\* Mutant of SkipLocation: the number of RED points is not looked at
SkipLocationEventsOnly(all_events, reds) == Len(all_events) < 3

\* the guard of the continue in write_events
SkipLocation(all_events, reds) == Len(all_events) < 3 \/ Len(reds) < 3

\* The loop over stored_events from key number i on.
\* st = [rows, keys, ckeys]: rows appended so far, keys of
\* stored_cycle_points and of its inner dicts (reading
\* stored_cycle_points[loc][RED] inserts loc, then RED; the read is
\* skipped when len(all_events) < 3)
RECURSIVE WriteEventsLoop(_, _, _, _, _)
WriteEventsLoop(st, se, ekeys, scp, i) ==
    IF i > Len(ekeys) THEN st
    ELSE LET loc == ekeys[i]
             touched == IF Len(se[loc]) < 3 THEN st
                        ELSE [st EXCEPT !.keys = Touch(@, loc),
                                        !.ckeys[loc] = Touch(@, RED)]
         IN  IF SkipLocation(se[loc], scp[loc][RED])
               THEN WriteEventsLoop(touched, se, ekeys, scp, i + 1)
               ELSE WriteEventsLoop(
                      [touched EXCEPT
                         !.rows = @ \o EventRows(loc, Sorted(se[loc][1]),
                                                 scp[loc][RED], 1)],
                      se, ekeys, scp, i + 1)

\* write_events: the new contents of the event file and the keys of
\* stored_cycle_points and of its inner dicts
write_events(se, ekeys, scp, keys, ckeys) ==
    LET r == WriteEventsLoop([rows |-> <<>>, keys |-> keys, ckeys |-> ckeys],
                             se, ekeys, scp, 1)
    IN  [file |-> <<DATA_HEADER>> \o r.rows, keys |-> r.keys,
         ckeys |-> r.ckeys]

\* The states in which a KeyboardInterrupt may find the loop of
\* write_events from key number i on: after each of the two key
\* insertions and after each row written
RECURSIVE WriteEventsCuts(_, _, _, _, _)
WriteEventsCuts(st, se, ekeys, scp, i) ==
    IF i > Len(ekeys) THEN {}
    ELSE LET loc == ekeys[i]
             outer == [st EXCEPT !.keys = Touch(@, loc)]
             inner == [outer EXCEPT !.ckeys[loc] = Touch(@, RED)]
             rows == EventRows(loc, Sorted(se[loc][1]), scp[loc][RED], 1)
         IN  (IF Len(se[loc]) < 3 THEN {}
              ELSE {outer, inner} \cup
                   (IF SkipLocation(se[loc], scp[loc][RED]) THEN {}
                    ELSE { [inner EXCEPT !.rows = @ \o SubSeq(rows, 1, n)] :
                           n \in 1..Len(rows) }))
             \cup WriteEventsCuts(
                    WriteEventsLoop(st, se, SubSeq(ekeys, 1, i), scp, i),
                    se, ekeys, scp, i + 1)

\* write_events interrupted: the event file truncated by open(fname, 'w'),
\* given its header, or in a state of the loop
write_events_cuts(se, ekeys, scp, keys, ckeys) ==
    LET st == [rows |-> <<>>, keys |-> keys, ckeys |-> ckeys]
    IN  { [file |-> top, keys |-> keys, ckeys |-> ckeys] :
          top \in { <<>>, <<DATA_HEADER>> } }
        \cup { [file |-> <<DATA_HEADER>> \o c.rows, keys |-> c.keys,
                ckeys |-> c.ckeys] :
               c \in WriteEventsCuts(st, se, ekeys, scp, 1) }

\* --------------------------------------------------------- snapshot parser
\* A timestamp string 'YYYY-MM-DD HH:MM:SS.ffffff' is the pair
\* <<minute of the epoch, second of the minute>>; <<>> is the empty string.
\* datetime.strptime, as an epoch second:
strptime(str) == 60 * str[1] + str[2]

\* data[loc].append(datum) on the insertion-ordered defaultdict(list)
AppendAt(items, loc, field, val) ==
    IF \E k \in 1..Len(items) : items[k].loc = loc
      THEN [k \in 1..Len(items) |->
              IF items[k].loc = loc
                THEN [items[k] EXCEPT ![field] = Append(@, val)]
                ELSE items[k]]
      ELSE Append(items, (field :> <<val>>) @@ [loc |-> loc])

\* The three nested loops of make_cycle_data over the body entries
\* [loc, colors], from entry number i on
RECURSIVE CycleBodyLoop(_, _, _)
CycleBodyLoop(data, body, i) ==
    IF i > Len(body) THEN data
    ELSE LET datum == [color \in Colors |->
                          IF body[i].colors[color] = <<>> THEN None
                          ELSE strptime(body[i].colors[color])]
         IN  CycleBodyLoop(
               IF \E color \in Colors : datum[color] /= None
                 THEN AppendAt(data, body[i].loc, "data", datum)
                 ELSE data,
               body, i + 1)

\* Mutant of make_cycle_data: the status code is not looked at
make_cycle_data_any_status(cycle_msg) ==
    CycleBodyLoop(<<>>, cycle_msg.body, 1)

make_cycle_data(cycle_msg) ==
    IF "statusCode" \notin DOMAIN cycle_msg \/ cycle_msg.statusCode /= 200
      THEN <<>>
      ELSE CycleBodyLoop(<<>>, cycle_msg.body, 1)

\* trigger_time.split(','): a sequence of tokens, <<>> the empty token and
\* <<n>> the decimal string of n.  The loop over the tokens from number j on.
RECURSIVE TriggerLoop(_, _, _, _, _)
TriggerLoop(evts, loc, tokens, tyme, j) ==
    IF j > Len(tokens) THEN evts
    ELSE TriggerLoop(
           IF tokens[j] /= <<>>
             THEN AppendAt(evts, loc, "events", tyme + tokens[j][1])
             ELSE evts,
           loc, tokens, tyme, j + 1)

RECURSIVE TrafficBodyLoop(_, _, _, _)
TrafficBodyLoop(evts, body, tyme, i) ==
    IF i > Len(body) THEN evts
    ELSE TrafficBodyLoop(
           TriggerLoop(evts, body[i].loc, body[i].trigger_time, tyme, 1),
           body, tyme, i + 1)

get_controller_events(traffic_msg, tyme) ==
    IF "statusCode" \notin DOMAIN traffic_msg \/ traffic_msg.statusCode /= 200
      THEN <<>>
      ELSE TrafficBodyLoop(<<>>, traffic_msg.body, tyme, 1)

\* ------------------------------------------------- exceptions of the parsers
\* strptime raises ValueError on a non-empty string that is not a timestamp:
\* any string other than a <<minute, second>> pair
Unparsable(str) == str /= <<>> /\ Len(str) /= 2

\* float raises ValueError on a non-empty token that is not a number: any
\* token other than <<n>>
NotANumber(token) == token /= <<>> /\ Len(token) /= 1

\* make_cycle_data raises: KeyError for a missing body or colour key,
\* ValueError for a timestamp that does not parse
make_cycle_data_raises(cycle_msg) ==
    /\ "statusCode" \in DOMAIN cycle_msg
    /\ cycle_msg.statusCode = 200
    /\ \/ "body" \notin DOMAIN cycle_msg
       \/ \E i \in 1..Len(cycle_msg.body) : \E color \in Colors :
             \/ color \notin DOMAIN cycle_msg.body[i].colors
             \/ Unparsable(cycle_msg.body[i].colors[color])

\* get_controller_events raises: KeyError for a missing body or
\* trigger_time, ValueError for an offset that does not parse
get_controller_events_raises(traffic_msg) ==
    /\ "statusCode" \in DOMAIN traffic_msg
    /\ traffic_msg.statusCode = 200
    /\ \/ "body" \notin DOMAIN traffic_msg
       \/ \E i \in 1..Len(traffic_msg.body) :
             \/ "trigger_time" \notin DOMAIN traffic_msg.body[i]
             \/ \E j \in 1..Len(traffic_msg.body[i].trigger_time) :
                   NotANumber(traffic_msg.body[i].trigger_time[j])

\* ------------------------------------------------------------------ state
VARIABLES
    pc,                   \* position of main; "exited": the loop left by
                          \* break, "interrupted": main left by an uncaught
                          \* KeyboardInterrupt, "crashed": by another error
    tyme, prev_time,      \* locals of main (epoch seconds, whole minutes)
    cycle_data, events,   \* locals of main: the parsed snapshots
    stored_cycle_points,  \* Location -> colour -> sequence of points
    cycle_keys,           \* keys of stored_cycle_points in insertion order
    color_keys,           \* Location -> keys of stored_cycle_points[loc]
    stored_events,        \* Location -> sequence of batches
    event_keys,           \* keys of stored_events in insertion order
    files,                \* contents of the four output files
    polls,                \* history: polls started
    stamps,               \* history: poll number of each retained batch
    datum_log,            \* history: per-datum trace of the last update
    appended,             \* history of the engine calls: every point
                          \* appended, per key
    fed,                  \* history of the engine calls: the snapshots
                          \* handed to the engine
    received,             \* history: every batch received, per key
    last_polled           \* history: the minute of the last fetch

vars == <<pc, tyme, prev_time, cycle_data, events, stored_cycle_points,
          cycle_keys, color_keys, stored_events, event_keys, files, polls,
          stamps,
          datum_log, appended, fed, received, last_polled>>

EVENT_OUT_FILE == "dots"
FileNames == Colors \cup {EVENT_OUT_FILE}

\* The points a call of update_stored_cycle_points appended, added to the
\* history of appended points
RECURSIVE Record(_, _, _)
Record(app, log, i) ==
    IF i > Len(log) THEN app
    ELSE Record(
           [app EXCEPT ![log[i].loc] =
              [color \in Colors |->
                 IF color \in DOMAIN log[i].curr
                   THEN Append(@[color], log[i].curr[color])
                   ELSE @[color]]],
           log, i + 1)

\* The batches a call of update_stored_events received, added to the
\* history of received batches
RECURSIVE Receive(_, _, _)
Receive(rec, all_new_events, i) ==
    IF i > Len(all_new_events) THEN rec
    ELSE Receive([rec EXCEPT ![all_new_events[i].loc] =
                    Append(@, all_new_events[i].events)],
                 all_new_events, i + 1)

\* ------------------------------------------------------------- payloads
\* The timestamp string of second sec of the minute polled
Stamp(t, sec) == <<t \div 60, sec>>

Entry(loc, g, y, r) ==
    [loc |-> loc, colors |-> (GREEN :> g) @@ (YELLOW :> y) @@ (RED :> r)]

\* Answers of the cycles API to a request for minute t
CycleMessages(t) ==
    { [statusCode |-> 500,
       body |-> << Entry("L1", <<>>, <<>>, Stamp(t, 40)) >>],
      [body |-> << Entry("L1", <<>>, <<>>, Stamp(t, 40)) >>],
      [statusCode |-> 200, body |-> << Entry("L1", <<>>, <<>>, <<>>) >>],
      [statusCode |-> 200,
       body |-> << Entry("L1", <<>>, <<>>, Stamp(t, 40)) >>],
      [statusCode |-> 200,
       body |-> << Entry("L1", Stamp(t, 10), <<>>, Stamp(t, 40)) >>],
      [statusCode |-> 200,
       body |-> << Entry("L2", Stamp(t, 10), <<>>, <<>>) >>],
      [statusCode |-> 200],
      [statusCode |-> 200,
       body |-> << [loc |-> "L1",
                    colors |-> (GREEN :> Stamp(t, 10)) @@ (YELLOW :> <<>>)] >>],
      [statusCode |-> 200,
       body |-> << Entry("L1", <<>>, <<>>, <<t \div 60>>) >>] }

\* Answers of the traffic API to a request for minute t
TrafficMessages(t) ==
    { [statusCode |-> 500,
       body |-> << [loc |-> "L1", trigger_time |-> << <<50>>, <<30>> >>] >>],
      [body |-> << [loc |-> "L1", trigger_time |-> << <<50>>, <<30>> >>] >>],
      [statusCode |-> 200,
       body |-> << [loc |-> "L1", trigger_time |-> << <<>> >>] >>],
      [statusCode |-> 200,
       body |-> << [loc |-> "L1", trigger_time |-> << <<50>>, <<30>> >>] >>],
      [statusCode |-> 200,
       body |-> << [loc |-> "L2", trigger_time |-> << <<30>>, <<>> >>] >>],
      [statusCode |-> 200],
      [statusCode |-> 200, body |-> << [loc |-> "L1"] >>],
      [statusCode |-> 200,
       body |-> << [loc |-> "L1", trigger_time |-> << <<50>>, <<3, 0>> >>] >>] }

\* get_time_to_minute: the clock does not run backwards, so a reading is
\* at least the previous reading, which tyme holds
ClockReadings(last) == { 60 * m : m \in (last \div 60)..MaxMinute }

\* ------------------------------------------------------------------- main
\* Mutant of NewMinute: main fetches whatever the clock reading is
NewMinuteAlways == TRUE

\* the negation of "if tyme == prev_time": the clock has left the minute of
\* the last poll
NewMinute == tyme /= prev_time

Init ==
    /\ pc = "loop"
    /\ tyme = 60
    /\ prev_time = 0
    /\ cycle_data = <<>>
    /\ events = <<>>
    /\ stored_cycle_points = [loc \in Location |-> [color \in Colors |-> <<>>]]
    /\ cycle_keys = <<>>
    /\ color_keys = [loc \in Location |-> <<>>]
    /\ stored_events = [loc \in Location |-> <<>>]
    /\ event_keys = <<>>
    /\ files = [f \in FileNames |-> <<>>]
    /\ polls = 0
    /\ stamps = [loc \in Location |-> <<>>]
    /\ datum_log = <<>>
    /\ appended = [loc \in Location |-> [color \in Colors |-> <<>>]]
    /\ fed = <<>>
    /\ received = [loc \in Location |-> <<>>]
    /\ last_polled = None

\* if tyme == prev_time: tyme = get_time_to_minute(HOUR_LAG); continue
Spin ==
    /\ pc = "loop"
    /\ tyme = prev_time
    /\ \E t \in ClockReadings(tyme) : tyme' = t
    /\ UNCHANGED <<pc, prev_time, cycle_data, events, stored_cycle_points,
                   cycle_keys, color_keys, stored_events, event_keys, files,
                   polls, stamps, received, last_polled, datum_log, appended,
                   fed>>

\* cycle_data = make_cycle_data(...); events = get_controller_events(...);
\* the KeyError or ValueError a parser may raise is not caught by main
Fetch ==
    /\ pc = "loop"
    /\ NewMinute
    /\ \E cycle_msg \in CycleMessages(tyme) :
       \E traffic_msg \in TrafficMessages(tyme) :
          IF make_cycle_data_raises(cycle_msg)
            THEN /\ pc' = "crashed"
                 /\ UNCHANGED <<cycle_data, events>>
            ELSE /\ cycle_data' = make_cycle_data(cycle_msg)
                 /\ IF get_controller_events_raises(traffic_msg)
                      THEN /\ pc' = "crashed"
                           /\ UNCHANGED events
                      ELSE /\ events' =
                                get_controller_events(traffic_msg, tyme)
                           /\ pc' = "update_cycle"
    /\ polls' = polls + 1
    /\ last_polled' = tyme
    /\ UNCHANGED <<tyme, prev_time, stored_cycle_points, cycle_keys,
                   color_keys, stored_events, event_keys, files, stamps,
                   received, datum_log, appended, fed>>

\* update_stored_cycle_points(stored_cycle_points, cycle_data); the
\* AttributeError it may raise is not caught by main
UpdateCycle ==
    /\ pc = "update_cycle"
    /\ LET r == update_stored_cycle_points(stored_cycle_points, cycle_keys,
                                           cycle_data)
       IN  /\ stored_cycle_points' = r.scp
           /\ cycle_keys' = r.keys
           /\ color_keys' = ColorKeysAfter(color_keys, r.log, 1)
           /\ datum_log' = r.log
           /\ pc' = IF r.raised THEN "crashed" ELSE "update_events"
    /\ UNCHANGED <<tyme, prev_time, cycle_data, events, stored_events,
                   event_keys, files, polls, stamps, received, last_polled,
                   appended, fed>>

\* update_stored_events(stored_events, events)
UpdateEvents ==
    /\ pc = "update_events"
    /\ LET r == update_stored_events(stored_events, event_keys, stamps,
                                     events, polls)
       IN  /\ stored_events' = r.se
           /\ event_keys' = r.keys
           /\ stamps' = r.stamps
           /\ received' = Receive(received, events, 1)
    /\ pc' = "write_cycle"
    /\ UNCHANGED <<tyme, prev_time, cycle_data, events, stored_cycle_points,
                   cycle_keys, color_keys, files, polls, datum_log, appended,
                   fed, last_polled>>

\* Mutant of WriteCycle: the colour files are opened for appending, the
\* header is written into an empty file only
WriteCycleAppend ==
    /\ pc = "write_cycle"
    /\ files' = [f \in FileNames |->
                   IF f \in Colors
                     THEN (IF files[f] = <<>> THEN <<DATA_HEADER>>
                           ELSE files[f])
                          \o CycleRows(stored_cycle_points, cycle_keys, f, 1)
                     ELSE files[f]]
    /\ pc' = "write_events"
    /\ UNCHANGED <<tyme, prev_time, cycle_data, events, stored_cycle_points,
                   cycle_keys, color_keys, stored_events, event_keys, polls,
                   stamps, received, last_polled, datum_log, appended, fed>>

\* write_cycle_data(stored_cycle_points)
WriteCycle ==
    /\ pc = "write_cycle"
    /\ LET out == write_cycle_data(stored_cycle_points, cycle_keys)
       IN  files' = [f \in FileNames |->
                       IF f \in Colors THEN out[f] ELSE files[f]]
    /\ pc' = "write_events"
    /\ UNCHANGED <<tyme, prev_time, cycle_data, events, stored_cycle_points,
                   cycle_keys, color_keys, stored_events, event_keys, polls,
                   stamps, received, last_polled, datum_log, appended, fed>>

\* write_events(stored_events, stored_cycle_points); prev_time = tyme;
\* tyme = get_time_to_minute(HOUR_LAG)
WriteEvents ==
    /\ pc = "write_events"
    /\ LET out == write_events(stored_events, event_keys,
                               stored_cycle_points, cycle_keys, color_keys)
       IN  /\ files' = [files EXCEPT ![EVENT_OUT_FILE] = out.file]
           /\ cycle_keys' = out.keys
           /\ color_keys' = out.ckeys
    /\ prev_time' = tyme
    /\ \E t \in ClockReadings(tyme) : tyme' = t
    /\ pc' = "loop"
    /\ UNCHANGED <<cycle_data, events, stored_cycle_points, stored_events,
                   event_keys, polls, stamps, received, last_polled,
                   datum_log, appended, fed>>

\* except KeyboardInterrupt: break, the interrupt arriving between two
\* statements of the try block
Interrupt ==
    /\ pc \in {"loop", "update_cycle", "update_events", "write_cycle",
               "write_events"}
    /\ pc' = "exited"
    /\ UNCHANGED <<tyme, prev_time, cycle_data, events, stored_cycle_points,
                   cycle_keys, color_keys, stored_events, event_keys, files,
                   polls, stamps, received, last_polled, datum_log, appended,
                   fed>>

\* The interrupt arriving while session.get waits for the cycles API, or,
\* cycle_data assigned, for the traffic API
InterruptFetch ==
    /\ pc = "loop"
    /\ NewMinute
    /\ \/ UNCHANGED cycle_data
       \/ \E cycle_msg \in CycleMessages(tyme) :
             /\ ~make_cycle_data_raises(cycle_msg)
             /\ cycle_data' = make_cycle_data(cycle_msg)
    /\ polls' = polls + 1
    /\ last_polled' = tyme
    /\ pc' = "exited"
    /\ UNCHANGED <<tyme, prev_time, events, stored_cycle_points, cycle_keys,
                   color_keys, stored_events, event_keys, files, stamps,
                   received, datum_log, appended, fed>>

\* The interrupt arriving inside update_stored_cycle_points
InterruptUpdateCycle ==
    /\ pc = "update_cycle"
    /\ \E c \in update_stored_cycle_points_cuts(
                   stored_cycle_points, cycle_keys, color_keys, cycle_data) :
          /\ stored_cycle_points' = c.scp
          /\ cycle_keys' = c.keys
          /\ color_keys' = c.ckeys
          /\ datum_log' = c.log
    /\ pc' = "exited"
    /\ UNCHANGED <<tyme, prev_time, cycle_data, events, stored_events,
                   event_keys, files, polls, stamps, received, last_polled,
                   appended, fed>>

\* The interrupt arriving inside update_stored_events
InterruptUpdateEvents ==
    /\ pc = "update_events"
    /\ \E c \in update_stored_events_cuts(stored_events, event_keys, stamps,
                                          events, polls) :
          /\ stored_events' = c.se
          /\ event_keys' = c.keys
          /\ stamps' = c.stamps
          /\ received' = Receive(received, SubSeq(events, 1, c.done), 1)
    /\ pc' = "exited"
    /\ UNCHANGED <<tyme, prev_time, cycle_data, events, stored_cycle_points,
                   cycle_keys, color_keys, files, polls, datum_log, appended,
                   fed, last_polled>>

\* The interrupt arriving inside write_cycle_data
InterruptWriteCycle ==
    /\ pc = "write_cycle"
    /\ \E out \in write_cycle_data_cuts(files, stored_cycle_points,
                                        cycle_keys, color_keys) :
          files' = [f \in FileNames |->
                      IF f \in Colors THEN out[f] ELSE files[f]]
    /\ pc' = "exited"
    /\ UNCHANGED <<tyme, prev_time, cycle_data, events, stored_cycle_points,
                   cycle_keys, color_keys, stored_events, event_keys, polls,
                   stamps, received, last_polled, datum_log, appended, fed>>

\* The interrupt arriving inside write_events, or after it: before
\* prev_time = tyme, or before tyme = get_time_to_minute(HOUR_LAG)
InterruptWriteEvents ==
    /\ pc = "write_events"
    /\ \/ /\ \E out \in write_events_cuts(stored_events, event_keys,
                                            stored_cycle_points, cycle_keys,
                                            color_keys) :
                /\ files' = [files EXCEPT ![EVENT_OUT_FILE] = out.file]
                /\ cycle_keys' = out.keys
                /\ color_keys' = out.ckeys
          /\ UNCHANGED prev_time
       \/ /\ LET out == write_events(stored_events, event_keys,
                                      stored_cycle_points, cycle_keys,
                                      color_keys)
             IN  /\ files' = [files EXCEPT ![EVENT_OUT_FILE] = out.file]
                 /\ cycle_keys' = out.keys
                 /\ color_keys' = out.ckeys
          /\ prev_time' \in {prev_time, tyme}
    /\ pc' = "exited"
    /\ UNCHANGED <<tyme, cycle_data, events, stored_cycle_points,
                   stored_events, event_keys, polls, stamps, received,
                   last_polled, datum_log, appended, fed>>

\* The interrupt raised at the top of the loop, "while True:" and "try:",
\* which the try block does not cover: main is left by the exception, the
\* print after the loop is not reached
InterruptLoopTop ==
    /\ pc = "loop"
    /\ pc' = "interrupted"
    /\ UNCHANGED <<tyme, prev_time, cycle_data, events, stored_cycle_points,
                   cycle_keys, color_keys, stored_events, event_keys, files,
                   polls, stamps, received, last_polled, datum_log, appended,
                   fed>>

\* The interrupt raised at the jump of "continue", tyme assigned: the jump
\* is outside the try block
InterruptContinue ==
    /\ pc = "loop"
    /\ tyme = prev_time
    /\ \E t \in ClockReadings(tyme) : tyme' = t
    /\ pc' = "interrupted"
    /\ UNCHANGED <<prev_time, cycle_data, events, stored_cycle_points,
                   cycle_keys, color_keys, stored_events, event_keys, files,
                   polls, stamps, received, last_polled, datum_log, appended,
                   fed>>

\* The interrupt raised at the jump back to the top of the loop, after
\* write_events, prev_time = tyme and tyme = get_time_to_minute(HOUR_LAG):
\* the jump is outside the try block
InterruptLoopEnd ==
    /\ pc = "write_events"
    /\ LET out == write_events(stored_events, event_keys,
                               stored_cycle_points, cycle_keys, color_keys)
       IN  /\ files' = [files EXCEPT ![EVENT_OUT_FILE] = out.file]
           /\ cycle_keys' = out.keys
           /\ color_keys' = out.ckeys
    /\ prev_time' = tyme
    /\ \E t \in ClockReadings(tyme) : tyme' = t
    /\ pc' = "interrupted"
    /\ UNCHANGED <<cycle_data, events, stored_cycle_points, stored_events,
                   event_keys, polls, stamps, received, last_polled,
                   datum_log, appended, fed>>

Next ==
    \/ Spin
    \/ Fetch
    \/ UpdateCycle
    \/ UpdateEvents
    \/ WriteCycle
    \/ WriteEvents
    \/ Interrupt
    \/ InterruptFetch
    \/ InterruptUpdateCycle
    \/ InterruptUpdateEvents
    \/ InterruptWriteCycle
    \/ InterruptWriteEvents
    \/ InterruptLoopTop
    \/ InterruptContinue
    \/ InterruptLoopEnd

Spec == Init /\ [][Next]_vars

\* ------------------------------------------- the engine called directly
\* Timestamps of the data handed to update_stored_cycle_points
GreenTimes == {100, 130}
YellowTimes == {135}
RedTimes == {100, 160}

Datum(g, y, r) == (GREEN :> g) @@ (YELLOW :> y) @@ (RED :> r)

\* Data as make_cycle_data keeps them: some colour is present
EngineData ==
    { Datum(g, y, r) : g \in GreenTimes \cup {None},
                       y \in YellowTimes \cup {None},
                       r \in RedTimes \cup {None} }
    \ { Datum(None, None, None) }

\* The colours a datum has a timestamp for
Present(d) == { c \in Colors : d[c] /= None }

\* Pairs of data that both have a timestamp for one and the same colour only
SingleColorPairs ==
    { <<d1, d2>> \in EngineData \X EngineData :
        Present(d1) = Present(d2) /\ Cardinality(Present(d1)) = 1 }

\* Snapshots of one location: one datum, or two data of the same one colour
EngineSnapshots ==
    { << [loc |-> "L1", data |-> <<d>>] >> : d \in EngineData }
    \cup { << [loc |-> "L1", data |-> p] >> : p \in SingleColorPairs }

InitEngine ==
    /\ pc = "engine"
    /\ tyme = 60
    /\ prev_time = 0
    /\ cycle_data = <<>>
    /\ events = <<>>
    /\ stored_cycle_points = [loc \in Location |-> [color \in Colors |-> <<>>]]
    /\ cycle_keys = <<>>
    /\ color_keys = [loc \in Location |-> <<>>]
    /\ stored_events = [loc \in Location |-> <<>>]
    /\ event_keys = <<>>
    /\ files = [f \in FileNames |-> <<>>]
    /\ polls = 0
    /\ stamps = [loc \in Location |-> <<>>]
    /\ datum_log = <<>>
    /\ appended = [loc \in Location |-> [color \in Colors |-> <<>>]]
    /\ fed = <<>>
    /\ received = [loc \in Location |-> <<>>]
    /\ last_polled = None

\* One call update_stored_cycle_points(stored_cycle_points, snapshot);
\* polls counts the calls
EngineCall ==
    /\ pc = "engine"
    /\ polls < MaxCalls
    /\ \E snapshot \in EngineSnapshots :
          LET r == update_stored_cycle_points(stored_cycle_points, cycle_keys,
                                              snapshot)
          IN  /\ cycle_data' = snapshot
              /\ stored_cycle_points' = r.scp
              /\ cycle_keys' = r.keys
              /\ color_keys' = ColorKeysAfter(color_keys, r.log, 1)
              /\ datum_log' = r.log
              /\ appended' = Record(appended, r.log, 1)
              /\ fed' = Append(fed, snapshot)
              /\ pc' = IF r.raised THEN "crashed" ELSE "engine"
    /\ polls' = polls + 1
    /\ UNCHANGED <<tyme, prev_time, events, stored_events, event_keys, files,
                   stamps, received, last_polled>>

NextEngine == EngineCall

SpecEngine == InitEngine /\ [][NextEngine]_vars

\* ------------------------------------------------- claims on the engine
Min(a, b) == IF a < b THEN a ELSE b

\* The last n elements of s
LastN(s, n) == SubSeq(s, Len(s) - n + 1, Len(s))

\* C1: every (location, colour) sequence of the cycle-point history holds at
\* most 3 points and equals the last min(3, n) of the n points ever
\* appended for that key, in append order.
C1_LastThreeAppended ==
    \A loc \in Location : \A color \in Colors :
        LET points == stored_cycle_points[loc][color]
            all == appended[loc][color]
        IN  /\ Len(points) <= 3
            /\ points = LastN(all, Min(3, Len(all)))

\* C1 witness: five points were appended for one key, two were evicted, and
\* the oldest retained point differs from the evicted ones.
C1_Witness ==
    /\ Len(appended["L1"][RED]) = 5
    /\ Len(stored_cycle_points["L1"][RED]) = 3
    /\ appended["L1"][RED][1] /= appended["L1"][RED][3]
    /\ appended["L1"][RED][2] /= appended["L1"][RED][3]

\* C2 as claimed: a datum with GREEN at t for a location whose GREEN history
\* is non-empty and whose RED history is empty is processed without an
\* error and appends the bootstrap point (t, second of t) to GREEN.
C2_GreenFallsBackToBootstrap ==
    \A k \in 1..Len(datum_log) :
        LET e == datum_log[k]
        IN  (e.datum[GREEN] /= None /\ e.pre[GREEN] /= <<>>
             /\ e.pre[RED] = <<>>)
            => /\ ~e.raised
               /\ e.post[GREEN] /= <<>>
               /\ Last(e.post[GREEN]) =
                     Point(e.datum[GREEN], Second(e.datum[GREEN]))

\* C3 as claimed: whenever the last stored RED point has x = r, a datum with
\* GREEN at t appends the GREEN point (t, t - r).
C3_GreenChainsAlways ==
    \A k \in 1..Len(datum_log) :
        LET e == datum_log[k]
        IN  (e.datum[GREEN] /= None /\ e.pre[RED] /= <<>>)
            => /\ e.post[GREEN] /= <<>>
               /\ Last(e.post[GREEN]) =
                     Point(e.datum[GREEN],
                           e.datum[GREEN] - Last(e.pre[RED]).x)

\* C3 amended: whenever the last stored RED point has x = r and the GREEN
\* history is not empty, a datum with GREEN at t appends the GREEN point
\* (t, t - r).
C3_GreenChainsOnPrevRed ==
    \A k \in 1..Len(datum_log) :
        LET e == datum_log[k]
        IN  (e.datum[GREEN] /= None /\ e.pre[RED] /= <<>>
             /\ e.pre[GREEN] /= <<>>)
            => /\ ~e.raised
               /\ GREEN \in DOMAIN e.curr
               /\ e.curr[GREEN] = Point(e.datum[GREEN],
                                        e.datum[GREEN] - Last(e.pre[RED]).x)
               /\ Last(e.post[GREEN]) = e.curr[GREEN]

\* C3 witness: the last RED point has x = 100, GREEN was seen before, and a
\* datum with GREEN at 130 appended (130, 30).
C3_Witness ==
    \E k \in 1..Len(datum_log) :
        LET e == datum_log[k]
        IN  /\ e.datum[GREEN] = 130
            /\ e.pre[RED] /= <<>> /\ Last(e.pre[RED]).x = 100
            /\ e.pre[GREEN] /= <<>>
            /\ Last(e.post[GREEN]) = Point(130, 30)
            /\ Last(stored_cycle_points[e.loc][GREEN]) = Point(130, 30)

\* C4 as claimed: whenever a datum produced a GREEN point (gx, gy) and has
\* YELLOW at t, the YELLOW point appended is (t, gy + (t - gx)).
C4_YellowChainsAlways ==
    \A k \in 1..Len(datum_log) :
        LET e == datum_log[k]
        IN  (e.datum[YELLOW] /= None /\ GREEN \in DOMAIN e.curr)
            => /\ e.post[YELLOW] /= <<>>
               /\ Last(e.post[YELLOW]) =
                     Point(e.datum[YELLOW],
                           e.curr[GREEN].y
                           + (e.datum[YELLOW] - e.curr[GREEN].x))

\* C4 amended: whenever a datum produced a GREEN point (gx, gy), has YELLOW
\* at t and the YELLOW history is not empty, the YELLOW point appended is
\* (t, gy + (t - gx)).
C4_YellowChainsOnGreen ==
    \A k \in 1..Len(datum_log) :
        LET e == datum_log[k]
        IN  (e.datum[YELLOW] /= None /\ GREEN \in DOMAIN e.curr
             /\ e.pre[YELLOW] /= <<>>)
            => /\ YELLOW \in DOMAIN e.curr
               /\ e.curr[YELLOW] =
                     Point(e.datum[YELLOW],
                           e.curr[GREEN].y
                           + (e.datum[YELLOW] - e.curr[GREEN].x))
               /\ Last(e.post[YELLOW]) = e.curr[YELLOW]

\* C4 witness: the datum produced GREEN (130, 30) and its YELLOW at 135
\* appended (135, 35).
C4_Witness ==
    \E k \in 1..Len(datum_log) :
        LET e == datum_log[k]
        IN  /\ GREEN \in DOMAIN e.curr /\ e.curr[GREEN] = Point(130, 30)
            /\ e.datum[YELLOW] = 135
            /\ e.pre[YELLOW] /= <<>>
            /\ Last(e.post[YELLOW]) = Point(135, 35)

\* C5 as claimed: a datum in which a colour is absent while the history of
\* that colour is non-empty with last point p appends a point equal to p to
\* that history, and p is this cycle's point of the colour.
C5_CarryForward ==
    \A k \in 1..Len(datum_log) : \A color \in Colors :
        LET e == datum_log[k]
        IN  (e.datum[color] = None /\ e.pre[color] /= <<>>)
            => /\ color \in DOMAIN e.curr
               /\ e.curr[color] = Last(e.pre[color])
               /\ Len(e.pre[color]) < 3
                    => e.post[color] = Append(e.pre[color], Last(e.pre[color]))
               /\ Len(e.pre[color]) = 3
                    => e.post[color] =
                         Append(Tail(e.pre[color]), Last(e.pre[color]))

\* C6 as claimed: a datum with a timestamp t for a colour whose history is
\* empty appends the point (t, second of t), whatever the other colours of
\* the datum are.
C6_Bootstrap ==
    \A k \in 1..Len(datum_log) : \A color \in Colors :
        LET e == datum_log[k]
        IN  (e.datum[color] /= None /\ e.pre[color] = <<>>)
            => e.post[color] =
                 << Point(e.datum[color], Second(e.datum[color])) >>

\* The snapshot of location L1 with the one datum (g, y, r)
Snapshot(g, y, r) == << [loc |-> "L1", data |-> << Datum(g, y, r) >>] >>

\* C7 as claimed: after poll 1 with only GREEN at 100 and poll 2 with RED at
\* 160 (the datum of poll 2 with or without the GREEN at 100), the GREEN
\* history is [(100, 40)] and the RED history is [(160, 60)].
C7_EndToEndAsClaimed ==
    (/\ Len(fed) = 2
     /\ fed[1] = Snapshot(100, None, None)
     /\ fed[2] \in {Snapshot(None, None, 160), Snapshot(100, None, 160)})
    => /\ stored_cycle_points["L1"][GREEN] = << Point(100, 40) >>
       /\ stored_cycle_points["L1"][RED] = << Point(160, 60) >>

\* C7 amended: after poll 1 with only GREEN at 100 and poll 2 with only RED
\* at 160, the GREEN history is [(100, 40), (100, 40)] (GREEN is carried
\* forward), the RED history is [(160, 40)] (40 is the second of 160) and
\* the YELLOW history is empty.
C7_EndToEnd ==
    (/\ Len(fed) = 2
     /\ fed[1] = Snapshot(100, None, None)
     /\ fed[2] = Snapshot(None, None, 160))
    => /\ pc /= "crashed"
       /\ stored_cycle_points["L1"][GREEN] = << Point(100, 40), Point(100, 40) >>
       /\ stored_cycle_points["L1"][RED] = << Point(160, 40) >>
       /\ stored_cycle_points["L1"][YELLOW] = <<>>

\* C7 witness: the two polls of the scenario have been processed.
C7_Witness ==
    /\ fed = << Snapshot(100, None, None), Snapshot(None, None, 160) >>
    /\ polls = 2
    /\ Last(stored_cycle_points["L1"][RED]).x = 160

\* --------------------------------------------- claims on the correlator
\* write_events has just run in poll number polls: main is back at the top
\* of its loop and the histories are those write_events read
Flushed == pc = "loop" /\ polls >= 1

\* The rows of the event file for one location
RowsOf(loc) ==
    SelectSeq(files[EVENT_OUT_FILE], LAMBDA row : row.loc = loc)

\* The x of the retained RED points of one location
RedXs(loc) ==
    { stored_cycle_points[loc][RED][i].x :
        i \in 1..Len(stored_cycle_points[loc][RED]) }

\* How often e occurs in the sequence s
Count(s, e) == Cardinality({ i \in 1..Len(s) : s[i] = e })

\* C8: for a location with 3 retained batches and 3 retained RED points,
\* every event e of the oldest batch that has a RED x <= e gets exactly one
\* row (e, e - x*), x* the largest RED x with x* <= e; every emitted y is
\* >= 0; no other row is emitted; the rows are in ascending e.
C8_EventCorrelation ==
    Flushed =>
      \A loc \in Location :
        (Len(stored_events[loc]) = 3 /\ Len(stored_cycle_points[loc][RED]) = 3)
        => LET batch == stored_events[loc][1]
               rows == RowsOf(loc)
               xs == RedXs(loc)
           IN  /\ \A i \in 1..Len(rows) :
                     /\ rows[i].y >= 0
                     /\ Count(batch, rows[i].x) > 0
                     /\ \E x \in xs :
                           /\ x <= rows[i].x
                           /\ rows[i].y = rows[i].x - x
                           /\ \A x2 \in xs : x2 <= rows[i].x => x2 <= x
               /\ \A j \in 1..Len(batch) :
                     (\E x \in xs : x <= batch[j])
                     => Count([i \in 1..Len(rows) |-> rows[i].x], batch[j])
                          = Count(batch, batch[j])
               /\ \A i \in 1..Len(rows) : \A j \in 1..Len(rows) :
                     i < j => rows[i].x <= rows[j].x

\* C8 witness: RED x are 100, 160, 220, the correlated batch holds the event
\* 170 and the row (170, 10) was emitted.
C8_Witness ==
    /\ Flushed
    /\ Len(stored_events["L1"]) = 3
    /\ RedXs("L1") = {100, 160, 220}
    /\ Count(stored_events["L1"][1], 170) = 1
    /\ \E i \in 1..Len(RowsOf("L1")) :
          RowsOf("L1")[i].x = 170 /\ RowsOf("L1")[i].y = 10

\* C9: no row is emitted for an event that is earlier than every retained
\* RED point of its location, and no row at all for a location with fewer
\* than 3 retained RED points; main goes on in both cases.
C9_EventDrop ==
    Flushed =>
      \A loc \in Location :
        /\ Len(stored_cycle_points[loc][RED]) < 3 => RowsOf(loc) = <<>>
        /\ \A b \in 1..Len(stored_events[loc]) :
             \A j \in 1..Len(stored_events[loc][b]) :
               LET e == stored_events[loc][b][j]
               IN  (\A x \in RedXs(loc) : e < x)
                   => \A i \in 1..Len(RowsOf(loc)) : RowsOf(loc)[i].x /= e

\* C9 witness: the correlated batch holds 90 and 110, the RED x are 100,
\* 160, 220; 110 got a row and 90 got none.
C9_Witness ==
    /\ Flushed
    /\ Len(stored_events["L1"]) = 3
    /\ RedXs("L1") = {100, 160, 220}
    /\ Count(stored_events["L1"][1], 90) = 1
    /\ Len(RowsOf("L1")) = 1
    /\ RowsOf("L1")[1].x = 110

\* C10 as claimed: whenever write_events emitted rows for a location in
\* poll n, the batch they come from was received in poll n - 2.
C10_LagIsTwoPolls ==
    Flushed =>
      \A loc \in Location :
        RowsOf(loc) /= <<>> => stamps[loc][1] = polls - 2

\* ------------------------------------------------------------ interrupt
\* The row of a stored point, as write_cycle_data writes it
PointRow(loc, pt) == make_data_row(loc, pt.x, pt.y)

\* C11 (as claimed): when main has been left on an operator interrupt,
\* every point derived into the histories has been written: the newest
\* point of every stored sequence that a flush writes (two points or more)
\* has its row in the file of its colour.
C11_InterruptFlushes ==
    pc \in {"exited", "interrupted"} =>
      \A loc \in Location : \A color \in Colors :
        LET points == stored_cycle_points[loc][color]
        IN  Len(points) >= 2 =>
              \E k \in 1..Len(files[color]) :
                 files[color][k] = PointRow(loc, Last(points))

\* ---------------------------------------------------------- output files
\* C12 (as claimed): a file gets its header once and rows are only appended
\* afterwards: every row of a file is still in the file after the next step.
C12_RowsOnlyAppended ==
    [][\A f \in FileNames : \A k \in 2..Len(files[f]) :
          \E j \in 1..Len(files'[f]) : files'[f][j] = files[f][k]]_vars

\* C12 (amended): every flush truncates its files and writes the header
\* again, so a written file holds one header row, at its top, and after a
\* completed poll only rows of the latest flush: a row of a colour file is
\* one of the two newest stored points of its location, a row of the event
\* file is an event of the oldest stored batch of its location.
C12_FileHoldsLatestFlush ==
    \A f \in FileNames :
      files[f] /= <<>> =>
        /\ files[f][1] = DATA_HEADER
        /\ \A k \in 2..Len(files[f]) :
             LET row == files[f][k]
             IN  /\ row /= DATA_HEADER
                 /\ row.loc \in Location
                 /\ (Flushed /\ f \in Colors) =>
                      LET points == stored_cycle_points[row.loc][f]
                      IN  \E i \in 1..Len(points) :
                            /\ i >= Len(points) - 1
                            /\ row = PointRow(row.loc, points[i])
                 /\ (Flushed /\ f = EVENT_OUT_FILE) =>
                      /\ stored_events[row.loc] /= <<>>
                      /\ \E i \in 1..Len(stored_events[row.loc][1]) :
                            row.x = stored_events[row.loc][1][i]

\* A RED point whose row an earlier flush wrote is no longer in the file
\* after a later flush wrote the rows of the two newest points
C12_Witness ==
    /\ Flushed
    /\ Len(stored_cycle_points["L1"][RED]) = 3
    /\ Len(files[RED]) = 3
    /\ \A k \in 1..Len(files[RED]) :
         files[RED][k] /= PointRow("L1", stored_cycle_points["L1"][RED][1])
    /\ Len(files[EVENT_OUT_FILE]) >= 2

\* ------------------------------------------------------ failed payloads
\* A payload without a status code or with a status code other than 200
FailureFlagged(msg) == "statusCode" \notin DOMAIN msg \/ msg.statusCode /= 200

\* C13: both parsers return the empty structure for every failure-flagged
\* payload a poll may receive, whatever its body, and the steps of a poll
\* that work on empty
\* structures raise no error and leave every stored point and every stored
\* batch as they were.
C13_FailureFlaggedPoll ==
    [][/\ pc = "loop" =>
            /\ \A msg \in CycleMessages(tyme) :
                  FailureFlagged(msg) => make_cycle_data(msg) = <<>>
            /\ \A msg \in TrafficMessages(tyme) :
                  FailureFlagged(msg) => get_controller_events(msg, tyme) = <<>>
       /\ (pc = "update_cycle" /\ cycle_data = <<>>) =>
            /\ pc' /= "crashed"
            /\ stored_cycle_points' = stored_cycle_points
            /\ stored_events' = stored_events
       /\ (pc = "update_events" /\ events = <<>>) =>
            /\ stored_cycle_points' = stored_cycle_points
            /\ stored_events' = stored_events
       /\ (pc \in {"write_cycle", "write_events"}) =>
            /\ pc' /= "crashed"
            /\ stored_cycle_points' = stored_cycle_points
            /\ stored_events' = stored_events]_vars

\* A poll of two failure-flagged payloads has gone through both updates
\* with points and batches stored by earlier polls
C13_Witness ==
    /\ pc = "write_cycle"
    /\ polls = 3
    /\ cycle_data = <<>>
    /\ events = <<>>
    /\ \E msg \in CycleMessages(tyme) :
         FailureFlagged(msg) /\ msg.body /= <<>>
    /\ Len(stored_cycle_points["L1"][RED]) = 2
    /\ Len(stored_events["L1"]) = 2
    /\ datum_log = <<>>

\* ---------------------------------------------------- malformed payloads
\* C14 (as claimed): a malformed payload with status 200 is treated as no
\* data, so the fetch-and-parse step of main never ends in an exception:
\* from the top of the loop main never goes to the crashed position.
C14_MalformedIsNoData ==
    [][pc = "loop" => pc' /= "crashed"]_vars

\* ------------------------------------------------------- order of points
\* The x values of a sequence of points never go down
NonDecreasing(points) ==
    \A i \in 1..(Len(points) - 1) : points[i].x <= points[i + 1].x

\* C15 (as claimed): in every reachable state the points of every
\* (location, colour) sequence are in increasing order of x, whatever the
\* timestamps of the records were (read weakly: x never goes down).
C15_MonotonicX ==
    \A loc \in Location : \A color \in Colors :
        NonDecreasing(stored_cycle_points[loc][color])

\* C15 (amended): processing a record keeps a sequence whose x values never
\* go down in that order when the colour is absent from the record (the
\* point carried forward repeats the last x) or its timestamp is not
\* earlier than the x of the last stored point.
C15_OrderKeptByLaterTimestamps ==
    \A k \in 1..Len(datum_log) : \A color \in Colors :
        LET e == datum_log[k]
        IN  (/\ ~e.raised
             /\ NonDecreasing(e.pre[color])
             /\ \/ e.datum[color] = None
                \/ e.pre[color] = <<>>
                \/ e.datum[color] >= Last(e.pre[color]).x)
            => NonDecreasing(e.post[color])

\* A RED sequence of three points: stored, carried forward with the same x,
\* then a later timestamp
C15_Witness ==
    \E k \in 1..Len(datum_log) :
        LET e == datum_log[k]
        IN  /\ e.datum[RED] = 160
            /\ Len(e.post[RED]) = 3
            /\ e.post[RED][1].x = 100
            /\ e.post[RED][2] = e.post[RED][1]
            /\ e.post[RED][3].x = 160

\* ---------------------------------------------------------- event history
\* The locations of a snapshot
LocsOf(snapshot) == { snapshot[i].loc : i \in 1..Len(snapshot) }

\* C16: the event history of every location holds at most 3 batches at
\* every step, and after every step other than an update_stored_events call
\* cut short by an interrupt they are the last min(3, n) of the n batches
\* received for it, in arrival order; an update_stored_events call that
\* returns appends the one batch of every location of the trigger snapshot
\* as the newest batch and leaves the batches of every other location as
\* they were.
C16_EventHistory ==
    [][/\ \A loc \in Location :
            /\ Len(stored_events'[loc]) <= 3
            /\ ~(pc = "update_events" /\ pc' = "exited") =>
                 stored_events'[loc] =
                   LastN(received'[loc], Min(3, Len(received'[loc])))
       /\ (pc = "update_events" /\ pc' = "write_cycle") =>
            \A loc \in Location :
              IF loc \in LocsOf(events)
                THEN /\ Len(stored_events'[loc]) =
                          Min(3, Len(stored_events[loc]) + 1)
                     /\ \E i \in 1..Len(events) :
                          /\ events[i].loc = loc
                          /\ Last(stored_events'[loc]) = events[i].events
                     /\ \A j \in 1..(Len(stored_events'[loc]) - 1) :
                          stored_events'[loc][j] =
                            stored_events[loc]
                              [Len(stored_events[loc]) + j
                               - (Len(stored_events'[loc]) - 1)]
                ELSE stored_events'[loc] = stored_events[loc]]_vars

\* Four batches were received for L1, three are stored, and the last call
\* left the stored batch of L2 alone
C16_Witness ==
    /\ pc = "write_cycle"
    /\ Len(received["L1"]) = 4
    /\ Len(stored_events["L1"]) = 3
    /\ stored_events["L1"][1] /= received["L1"][1]
    /\ LocsOf(events) = {"L1"}

\* ------------------------------------------------------- RED precedence
\* C17: a datum with RED at t for a location whose RED history is not empty
\* appends the RED point chained onto this cycle's YELLOW point when the
\* datum produced one (observed or carried forward), else chained onto this
\* cycle's GREEN point when the datum produced one, else the bootstrap
\* point (t, second of t); the previous RED point plays no part.
C17_RedPrecedence ==
    \A k \in 1..Len(datum_log) :
        LET e == datum_log[k]
            t == e.datum[RED]
        IN  (t /= None /\ e.pre[RED] /= <<>>)
            => /\ ~e.raised
               /\ RED \in DOMAIN e.curr
               /\ Last(e.post[RED]) = e.curr[RED]
               /\ e.curr[RED] =
                    IF YELLOW \in DOMAIN e.curr
                      THEN Point(t, e.curr[YELLOW].y + (t - e.curr[YELLOW].x))
                    ELSE IF GREEN \in DOMAIN e.curr
                      THEN Point(t, e.curr[GREEN].y + (t - e.curr[GREEN].x))
                    ELSE Point(t, t % 60)

\* RED at 160 with a stored RED point, a carried-forward YELLOW point
\* (135, 15) and a GREEN point (130, 30) of this cycle: the RED point is
\* (160, 40), chained onto YELLOW, and not (160, 60), chained onto GREEN
C17_Witness ==
    \E k \in 1..Len(datum_log) :
        LET e == datum_log[k]
        IN  /\ e.datum[RED] = 160
            /\ e.datum[YELLOW] = None
            /\ e.pre[RED] /= <<>>
            /\ YELLOW \in DOMAIN e.curr /\ e.curr[YELLOW] = Point(135, 15)
            /\ GREEN \in DOMAIN e.curr /\ e.curr[GREEN] = Point(130, 30)
            /\ Last(e.post[RED]) = Point(160, 40)

\* ------------------------------------------------- frame of the engine
\* post is pre with one point appended; the oldest point is evicted when
\* pre already holds the 3 points a sequence may hold
OneAppended(pre, post) ==
    /\ post /= <<>>
    /\ \/ Len(pre) < 3 /\ post = Append(pre, Last(post))
       \/ Len(pre) = 3 /\ post = Append(Tail(pre), Last(post))

\* C18 (as claimed): an update_stored_cycle_points call changes the history
\* of no location that is missing from the snapshot, and for every record
\* of the snapshot a colour that is absent and has no stored point keeps an
\* empty sequence while every other colour gets exactly one point appended
\* (with at most one eviction).
C18_Frame ==
    [][(pc = "update_cycle" /\ pc' /= "exited") =>
         /\ \A loc \in Location \ LocsOf(cycle_data) :
               stored_cycle_points'[loc] = stored_cycle_points[loc]
         /\ Len(datum_log') = Len(Flatten(cycle_data))
         /\ \A k \in 1..Len(datum_log') : \A color \in Colors :
               LET e == datum_log'[k]
               IN  IF e.datum[color] = None /\ e.pre[color] = <<>>
                     THEN e.post[color] = <<>>
                     ELSE OneAppended(e.pre[color], e.post[color])]_vars

\* ------------------------------------------------------------ cycle flush
\* The rows of one location in a file, in file order
RowsFor(file, loc) ==
    LET OfLoc(row) == row.loc = loc
    IN  SelectSeq(file, OfLoc)

\* C19: a write_cycle_data call leaves in the file of each colour, for
\* every location, exactly the rows of the two newest points of the stored
\* sequence, older one first, when the sequence holds at least 2 points,
\* and no row of the location otherwise; the cycle-point history is not
\* changed by the call.
C19_CycleFlushContent ==
    [][(pc = "write_cycle" /\ pc' = "write_events") =>
         /\ stored_cycle_points' = stored_cycle_points
         /\ \A loc \in Location : \A color \in Colors :
               LET points == stored_cycle_points[loc][color]
                   n == Len(points)
               IN  RowsFor(files'[color], loc) =
                     IF n >= 2
                       THEN << PointRow(loc, points[n - 1]),
                               PointRow(loc, points[n]) >>
                       ELSE <<>>]_vars

\* After a flush: three RED points are stored for L1 and the RED file holds
\* the rows of the second and the third; a GREEN sequence of one point has
\* no row in the GREEN file
C19_Witness ==
    /\ pc = "write_events"
    /\ Len(stored_cycle_points["L1"][RED]) = 3
    /\ stored_cycle_points["L1"][RED][1] /= stored_cycle_points["L1"][RED][2]
    /\ files[RED] = << DATA_HEADER,
                       PointRow("L1", stored_cycle_points["L1"][RED][2]),
                       PointRow("L1", stored_cycle_points["L1"][RED][3]) >>
    /\ \E loc \in Location :
         /\ Len(stored_cycle_points[loc][GREEN]) = 1
         /\ RowsFor(files[GREEN], loc) = <<>>

\* ------------------------------------------------------------ step order
\* The order of the steps of one poll, as positions of main
StepOrder ==
    { <<"loop", "update_cycle">>, <<"update_cycle", "update_events">>,
      <<"update_events", "write_cycle">>, <<"write_cycle", "write_events">>,
      <<"write_events", "loop">> }

\* C20: a fetch is made at the top of the loop only, for a minute other
\* than the minute of the previous fetch; main goes through fetch, update
\* of the cycle points, update of the events, flush of the cycle points
\* and flush of the events in this order and is back at the top of the
\* loop before the next fetch; each history and each file is changed by
\* its own step only.
C20_DriverStepOrder ==
    [][/\ polls' /= polls =>
            /\ pc = "loop"
            /\ polls' = polls + 1
            /\ tyme /= last_polled
            /\ tyme' = tyme
       /\ (pc = "loop" /\ pc' = "update_cycle") => polls' = polls + 1
       /\ \/ <<pc, pc'>> \in StepOrder
          \/ pc' \in {"exited", "interrupted", "crashed"}
          \/ pc = "loop" /\ pc' = "loop"
       /\ pc /= "loop" => tyme' = tyme \/ pc = "write_events"
       /\ stored_cycle_points' /= stored_cycle_points => pc = "update_cycle"
       /\ stored_events' /= stored_events => pc = "update_events"
       /\ (\E color \in Colors : files'[color] /= files[color])
            => pc = "write_cycle"
       /\ files'[EVENT_OUT_FILE] /= files[EVENT_OUT_FILE]
            => pc = "write_events"]_vars

\* The third fetch has been made, for minute 4 after minutes 1 and 2, with
\* the histories and the files of the polls before it in place
C20_Witness ==
    /\ pc = "update_cycle"
    /\ polls = 3
    /\ last_polled = 240
    /\ prev_time = 120
    /\ Len(stored_cycle_points["L1"][RED]) = 2
    /\ Len(stored_events["L1"]) = 2
    /\ Len(files[RED]) = 3
    /\ files[EVENT_OUT_FILE] = <<DATA_HEADER>>
====
